---- MODULE Spec2Model ----
(***************************************************************************)
(* Model of the emulator trajectory manager (AndroidEnvironment) and of    *)
(* the worker supervision (Worker, Coordinator) of InfiGUI-World.          *)
(*                                                                         *)
(* Request handlers run in threads (Flask serves each request in its own   *)
(* thread).  A handler is cut into steps at its blocking calls (adb and    *)
(* emulator subprocesses, process waits): a step holds the code between    *)
(* two blocking calls, and the result of a blocking call is read at the    *)
(* start of the step that follows it.                                      *)
(***************************************************************************)
EXTENDS Integers, FiniteSets, Sequences, TLC

\* ------------------------------------------------------------------ bounds
NTraj == 2
  \* trajectory ids the clients and uuid4 draw from
MaxEmu == 2
  \* emulator processes spawned by the system that are alive at once
MaxCalls == 4
  \* requests the environment accepts in one run
MaxCoord == 3
  \* swipe coordinates of the translation runs: 0..MaxCoord
MaxApply == 2
  \* to_json_action is applied to an input and then to its result
NWorkers == 2
  \* workers a Coordinator can hold
MaxOld == 2
  \* loop threads of one worker that outlived a stop()
ScanLimit == 2
  \* candidate ports a port allocation may find in use before it has to fail

\* --------------------------------------------------------- program constants
DefaultBasePort == 5554

\* request threads 1 and 2 serve the AndroidEnvironment under study (process
\* 1), thread 3 a second instance of the system on the same host (process 2)
LocalThreads == {1, 2}
RemoteThreads == {3}
Threads == LocalThreads \cup RemoteThreads
Procs == {1, 2}
ProcOf(th) == IF th \in LocalThreads THEN 1 ELSE 2
Trajs == 1..NTraj
Handles == 1..MaxEmu
BasePorts == {DefaultBasePort, DefaultBasePort + 1}

VARIABLES
  base_port,         \* config['base_port'] of every process
  active_emulators,  \* [proc][trajectory_id] -> binding (status "absent": no key)
  port_lock,         \* [proc] -> thread holding _port_lock, 0 when free
  claims,            \* lock files of _CLAIM_DIR: [dev, owner]
  snapshots,         \* [trajectory_id] -> content of <snapshot_dir>/<t>.json
  emus,              \* emulator processes alive on the host
  issued,            \* trajectory ids uuid4 has produced
  thr,               \* [thread] -> position and locals of its handler
  calls,             \* requests accepted so far
  ret,               \* what the last step returned to its caller (NoRet: nothing)
  step_loc,          \* [thread] -> locals of its step call: action, command in flight
  inputs,            \* the actions clients send to step in this run
  normalized,        \* what to_json_action returned, call after call, when it
                     \* is applied to an input and then to its own result
  snap_hist,         \* ghost: [trajectory_id] -> "saved" once save wrote its file,
                     \* "removed" once a remove then deleted that file
  active_trajectories, \* keys of EnvironmentWorker.active_trajectories
  idle,              \* trajectories whose last request ended more than
                     \* max_idle_time ago
  reset_loc          \* ghost: [thread] -> the device commands its last reset issued

envVars == <<base_port, active_emulators, port_lock, claims, snapshots, emus,
             issued, thr, calls, ret, step_loc, inputs, normalized, snap_hist,
             active_trajectories, idle, reset_loc>>

VARIABLES
  co_running,        \* Coordinator.running
  workers,           \* keys of Coordinator.workers
  worker_status,     \* Coordinator.worker_status: [worker] -> [status, stale]
  worker_lock,       \* holder of Coordinator.worker_lock, "free" when nobody
  w_running,         \* [worker] -> Worker.running
  w_thread,          \* [worker] -> Worker.thread: "none", "alive" or "dead"
  w_old,             \* [worker] -> earlier loop threads of it that still live
  co_thr,            \* [caller] -> position in its Coordinator call
  restarts,          \* ghost: restart_worker calls in a row that returned True
  unregistered,      \* the last unregister_worker call: [w, res], NoCall before any
  main_pc            \* the main thread of the process: "main" or "exited"

coVars == <<co_running, workers, worker_status, worker_lock, w_running, w_thread,
            w_old, co_thr, restarts, unregistered, main_pc>>
\* what start_worker, stop_worker, restart_worker and the monitor do not write
outside == <<envVars, unregistered, main_pc>>

\* what no handler of AndroidEnvironment writes
config == <<base_port, inputs, normalized, coVars, active_trajectories, idle, reset_loc>>
\* what only step and the load it calls write
static == <<config, step_loc>>

\* ---------------------------------------------------------------- values
NoBinding == [device |-> 0, port |-> 0, process |-> 0, status |-> "absent",
              snapshot_name |-> 0, last_action_time |-> 0]
NoFile == [trajectory_id |-> 0, device_id |-> 0, port |-> 0, snapshot_name |-> 0]
IdleThread == [pc |-> "idle", op |-> "none", traj |-> 0, dev |-> 0, port |-> 0,
               proc |-> 0, live |-> FALSE, snap |-> FALSE]
\* Optional fields of an action: None is <<>>, a value v is <<v>>
None == <<>>
Some(v) == <<v>>

\* the fields of a JSONAction
Fields(action_type, x, y, text, direction, app_name, keycode) ==
  [action_type |-> action_type, x |-> x, y |-> y, text |-> text,
   direction |-> direction, app_name |-> app_name, keycode |-> keycode]
NoFields == Fields("", None, None, None, None, None, None)

\* what a caller passes as `action`: a JSONAction ("record"), a dict, a JSON
\* string or a DSL string `cmd args... word`; `accepted` says whether the
\* JSONAction constructor takes these fields
Action(form, f, cmd, args, word, accepted) ==
  [form |-> form, f |-> f, cmd |-> cmd, args |-> args, word |-> word,
   accepted |-> accepted]
NoAction == Action("none", NoFields, "", <<>>, "", FALSE)

\* the response {success, error | trajectory_id, device_id} of a handler; for
\* a step also the observation's direction, whether the observation holds the
\* Observation Builder's fields, and (ghost) the action, the device commands
\* the step issued and whether a command performing the action failed
Ret(th, op, t, result, dev) ==
  [th |-> th, op |-> op, traj |-> t, res |-> result, dev |-> dev,
   direction |-> None, ob |-> FALSE, act |-> NoAction, ncmd |-> 0, failed |-> FALSE,
   key |-> None]
NoRet == Ret(0, "none", 0, "none", 0)
\* step's locals when no step is in progress in the thread
NoStep == [act |-> NoAction, n |-> 0, cnt |-> 0, failed |-> FALSE]
\* an emulator somebody started by hand before the system came up
Orphan == [h |-> 0, port |-> DefaultBasePort, st |-> "up", traj |-> 0, proc |-> 0]

\* f"emulator-{adb_port}": a device id is named by its adb port
DeviceId(port) == port + 1
\* f"sandbox_{trajectory_id[:8]}"
SnapshotName(t) == t

Has(p, t) == active_emulators[p][t].status # "absent"

\* `adb devices`: emulators that have come up are listed
Listed == {e \in emus : e.st = "up"}
DeviceUp(dev) == \E e \in Listed : DeviceId(e.port) = dev

\* ------------------------------------------------------ action translation
\* to_json_action raised
Raised == Action("raised", NoFields, "", <<>>, "", FALSE)
JSONAction(f) == Action("record", f, "", <<>>, "", TRUE)

Abs(n) == IF n < 0 THEN -n ELSE n

\* a swipe DSL whose tie and zero cases go to the horizontal axis
SwipeDirectionHorizontal(x1, y1, x2, y2) ==
  LET dx == x2 - x1
      dy == y2 - y1
  IN IF Abs(dx) >= Abs(dy)
     THEN (IF dx > 0 THEN "right" ELSE "left")
     ELSE (IF dy > 0 THEN "down" ELSE "up")

\* a swipe DSL that looks at the horizontal distance first
SwipeDirectionAxisFirst(x1, y1, x2, y2) ==
  IF x2 # x1 THEN (IF x2 > x1 THEN "right" ELSE "left")
  ELSE (IF y2 > y1 THEN "down" ELSE "up")

\* the direction the swipe DSL derives from its coordinates
SwipeDirection(x1, y1, x2, y2) ==
  LET dx == x2 - x1
      dy == y2 - y1
  IN IF Abs(dx) > Abs(dy)
     THEN (IF dx > 0 THEN "right" ELSE "left")
     ELSE (IF dy > 0 THEN "down" ELSE "up")

\* dsl_to_json_action on `cmd args... word`
\* str.lower() on the key names in use
LowerKey(k) ==
  IF k \in {"BACK", "Back"} THEN "back"
  ELSE IF k = "Home" THEN "home"
  ELSE IF k = "ENTER" THEN "enter"
  ELSE IF k = "MENU" THEN "menu"
  ELSE IF k = "Volume_Down" THEN "volume_down"
  ELSE IF k = "KEYCODE_CAMERA" THEN "keycode_camera"
  ELSE k

\* _get_key_code
GetKeyCode(key) ==
  LET k == LowerKey(key)
  IN IF k = "back" THEN "KEYCODE_BACK"
     ELSE IF k = "home" THEN "KEYCODE_HOME"
     ELSE IF k = "menu" THEN "KEYCODE_MENU"
     ELSE IF k = "power" THEN "KEYCODE_POWER"
     ELSE IF k = "enter" THEN "KEYCODE_ENTER"
     ELSE IF k = "delete" THEN "KEYCODE_DEL"
     ELSE IF k = "recents" THEN "KEYCODE_APP_SWITCH"
     ELSE IF k = "volume_up" THEN "KEYCODE_VOLUME_UP"
     ELSE IF k = "volume_down" THEN "KEYCODE_VOLUME_DOWN"
     ELSE key

DslToJsonAction(a) ==
  IF a.cmd = "click" /\ Len(a.args) >= 2
  THEN JSONAction(Fields("click", Some(a.args[1]), Some(a.args[2]), None, None, None, None))
  ELSE IF a.cmd = "text"
  THEN JSONAction(Fields("input_text", None, None, Some(a.word), None, None, None))
  ELSE IF a.cmd = "swipe" /\ Len(a.args) >= 4
  THEN JSONAction(Fields("swipe", None, None, None,
         Some(SwipeDirection(a.args[1], a.args[2], a.args[3], a.args[4])), None, None))
  ELSE IF a.cmd = "key" /\ LowerKey(a.word) = "back"
  THEN JSONAction(Fields("navigate_back", None, None, None, None, None, None))
  ELSE IF a.cmd = "key" /\ LowerKey(a.word) = "home"
  THEN JSONAction(Fields("navigate_home", None, None, None, None, None, None))
  ELSE IF a.cmd = "key" /\ LowerKey(a.word) = "enter"
  THEN JSONAction(Fields("keyboard_enter", None, None, None, None, None, None))
  ELSE Raised

\* a to_json_action without the branch for a JSONAction argument
ToJsonActionRebuild(a) ==
  IF a.form \in {"dict", "json"}
  THEN (IF a.accepted THEN JSONAction(a.f) ELSE Raised)
  ELSE IF a.form = "dsl" THEN DslToJsonAction(a)
  ELSE Raised

\* to_json_action
ToJsonAction(a) ==
  IF a.form = "record" THEN a
  ELSE IF a.form \in {"dict", "json"}
  THEN (IF a.accepted THEN JSONAction(a.f) ELSE Raised)
  ELSE IF a.form = "dsl" THEN DslToJsonAction(a)
  ELSE Raised

\* -------------------------------------------------------------- step inputs
Dsl(cmd, args, word) == Action("dsl", NoFields, cmd, args, word, TRUE)
Dict(f, accepted) == Action("dict", f, "", <<>>, "", accepted)
Json(f, accepted) == Action("json", f, "", <<>>, "", accepted)

\* "click 100 200"
Click == Dsl("click", <<100, 200>>, "")
\* "swipe 100 200 300 400" and "swipe 100 200 100 400"
SwipeTie == Dsl("swipe", <<100, 200, 300, 400>>, "")
SwipeVertical == Dsl("swipe", <<100, 200, 100, 400>>, "")

\* actions that lack a required field or hold an invalid one; whether the
\* JSONAction constructor takes a malformed dict is left open
Malformed ==
  {Dict(Fields("click", Some(100), None, None, None, None, None), TRUE),
   Dict(Fields("double_tap", None, None, None, None, None, None), TRUE),
   Dict(Fields("long_press", None, Some(200), None, None, None, None), TRUE),
   Dict(Fields("input_text", None, None, None, None, None, None), TRUE),
   Dict(Fields("scroll", None, None, None, None, None, None), TRUE),
   Dict(Fields("swipe", None, None, None, None, None, None), TRUE),
   Dict(Fields("open_app", None, None, None, None, None, None), TRUE),
   Dsl("click", <<100>>, ""),
   Dsl("swipe", <<100, 200, 300>>, ""),
   Dsl("key", <<>>, "")}
  \cup {Dict(Fields("swipe", None, None, None, Some("diagonal"), None, None), acc) :
          acc \in BOOLEAN}
  \cup {Json(Fields("open_app", None, None, None, None, Some(""), None), acc) :
          acc \in BOOLEAN}

\* well-formed actions of every kind and form
WellFormed ==
  {Click, SwipeTie, SwipeVertical,
   Dsl("text", <<>>, "hello"),
   Dsl("key", <<>>, "back"),
   Dsl("key", <<>>, "menu"),
   Dsl("screenshot", <<>>, ""),
   Dict(Fields("double_tap", Some(100), Some(200), None, None, None, None), TRUE),
   Dict(Fields("scroll", None, None, None, Some("UP"), None, None), TRUE),
   Dict(Fields("answer", None, None, None, None, None, None), TRUE),
   Dict(Fields("wait", None, None, None, None, None, None), TRUE),
   Dict(Fields("press_keyboard", None, None, None, None, None, Some("KEYCODE_VOLUME_UP")), TRUE),
   Json(Fields("open_app", None, None, None, None, Some("Settings"), None), TRUE),
   JSONAction(Fields("long_press", Some(100), Some(200), None, None, None, None))}

StepInputs == WellFormed \cup Malformed

\* "key <name>" with the names of the key map in several letter cases, and
\* with names the map does not hold
KeyNames ==
  {"back", "BACK", "Back", "Home", "ENTER", "menu", "MENU", "power", "delete",
   "recents", "volume_up", "Volume_Down", "KEYCODE_CAMERA", "f1"}
KeyInputs == {Dsl("key", <<>>, k) : k \in KeyNames}

Coords == 0..MaxCoord
\* "swipe x1 y1 x2 y2"
Swipe(x1, y1, x2, y2) == Dsl("swipe", <<x1, y1, x2, y2>>, "")
Swipes == {Swipe(x1, y1, x2, y2) : x1 \in Coords, y1 \in Coords, x2 \in Coords, y2 \in Coords}
NormInputs == StepInputs \cup Swipes

\* -------------------------------------------------------- port allocation
RECURSIVE ScanPort(_, _)
ScanPort(port, used) == IF port \in used THEN ScanPort(port + 2, used) ELSE port

UsedPorts(p) ==
  UNION {{active_emulators[p][t].port, active_emulators[p][t].port + 1} :
           t \in {u \in Trajs : Has(p, u)}}
  \cup UNION {{e.port, e.port + 1} : e \in Listed}

\* a port allocation that does not look at the used ports
GetFreePortPairNoScan(p) ==
  LET start == IF base_port % 2 = 0 THEN base_port ELSE base_port + 1
  IN <<start, start + 1>>

\* a port allocation that starts its scan at base_port even when it is odd
GetFreePortPairFromBase(p) ==
  LET port == ScanPort(base_port, UsedPorts(p))
  IN <<port, port + 1>>

GetFreePortPair(p) ==
  LET start == IF base_port % 2 = 0 THEN base_port ELSE base_port + 1
      port == ScanPort(start, UsedPorts(p))
  IN <<port, port + 1>>

\* ------------------------------------------------------------ claim files
Claimed(dev) == \E c \in claims : c.dev = dev
TryClaimDevice(p, dev) == claims \cup {[dev |-> dev, owner |-> p]}
ReleaseClaim(dev) == {c \in claims : c.dev # dev}

\* _find_existing_emulator: listed emulators this process does not track
\* and whose claim file can be created
Adoptable(p) ==
  {e \in Listed :
     /\ \A t \in Trajs : ~(Has(p, t) /\ active_emulators[p][t].device = DeviceId(e.port))
     /\ ~Claimed(DeviceId(e.port))}

\* ------------------------------------------------------ emulator processes
FreeHandles ==
  {h \in Handles :
     /\ \A e \in emus : e.h # h
     /\ \A p \in Procs, t \in Trajs : active_emulators[p][t].process # h
     /\ \A th \in Threads : thr[th].proc # h}
NewHandle == CHOOSE h \in FreeHandles : \A g \in FreeHandles : h <= g
Popen(h, port, t, p) == emus \cup {[h |-> h, port |-> port, st |-> "boot", traj |-> t, proc |-> p]}
\* a terminate() that leaves the process running
TerminateNothing(h) == emus
Terminate(h) == {e \in emus : e.h # h \/ h = 0}
\* `adb -s <dev> emu kill` ends the emulator that answers as <dev>
EmuKill(dev) == {e \in emus : ~(e.st = "up" /\ DeviceId(e.port) = dev)}

\* ------------------------------------------------------------ thread moves
Return(th, result) == Ret(th, thr[th].op, thr[th].traj, result, thr[th].dev)
\* holders of a reference to the dict stored under active_emulators[p][t]
Detach(T, p, t) ==
  [x \in Threads |->
     IF ProcOf(x) = p /\ T[x].traj = t /\ T[x].live
     THEN [T[x] EXCEPT !.live = FALSE] ELSE T[x]]

\* AndroidEnvironment.__init__: no binding, the lock free
InitTables ==
  /\ active_emulators = [p \in Procs |-> [t \in Trajs |-> NoBinding]]
  /\ port_lock = [p \in Procs |-> 0]
  /\ claims = {}
  /\ thr = [th \in Threads |-> IdleThread]
  /\ calls = 0
  /\ ret = NoRet
  /\ step_loc = [th \in Threads |-> NoStep]
  /\ normalized = <<>>
  /\ snap_hist = [t \in Trajs |-> "none"]
  /\ active_trajectories = {}
  /\ idle = {}
  /\ reset_loc = [th \in Threads |-> <<>>]

\* a metadata file an earlier run of the system left in snapshot_dir
PriorMeta(t) ==
  [trajectory_id |-> t, device_id |-> DeviceId(DefaultBasePort), port |-> DefaultBasePort,
   snapshot_name |-> SnapshotName(t)]

\* the host at start-up: snapshot_dir may hold files of an earlier run, and an
\* emulator started by hand may be running
InitEnv ==
  /\ InitTables
  /\ base_port = DefaultBasePort
  /\ inputs = {Click}
  /\ \E prior \in SUBSET Trajs :
       /\ snapshots = [t \in Trajs |-> IF t \in prior THEN PriorMeta(t) ELSE NoFile]
       /\ issued = prior
  /\ emus \in {{}, {Orphan}}

\* a request is accepted
Accept == calls < MaxCalls /\ calls' = calls + 1

\* ------------------------------------------------------------------ create
\* uuid.uuid4(): an id nobody has seen
FreshId == CHOOSE t \in Trajs \ issued : \A u \in Trajs \ issued : t <= u

\* create, up to the decision between adopting and starting an emulator
CreateFind(th) ==
  LET p == ProcOf(th)
      t == FreshId
  IN /\ thr[th].pc = "idle"
     /\ Trajs \ issued # {}
     /\ issued' = issued \cup {t}
     /\ IF Adoptable(p) # {}
        THEN \E e \in Adoptable(p) :
               /\ claims' = TryClaimDevice(p, DeviceId(e.port))
               /\ active_emulators' = [active_emulators EXCEPT ![p][t] =
                    [device |-> DeviceId(e.port), port |-> e.port, process |-> 0,
                     status |-> "running", snapshot_name |-> SnapshotName(t),
                     last_action_time |-> 0]]
               /\ ret' = Ret(th, "create", t, "ok", DeviceId(e.port))
               /\ UNCHANGED thr
        ELSE /\ thr' = [thr EXCEPT ![th] =
                    [IdleThread EXCEPT !.pc = "create_lock", !.op = "create", !.traj = t]]
             /\ ret' = NoRet
             /\ UNCHANGED <<claims, active_emulators>>
     /\ Accept
     /\ UNCHANGED <<static, port_lock, snapshots, emus, snap_hist>>

\* with self._port_lock:
CreateLock(th) ==
  LET p == ProcOf(th)
  IN /\ thr[th].pc = "create_lock"
     /\ port_lock[p] = 0
     /\ port_lock' = [port_lock EXCEPT ![p] = th]
     /\ thr' = [thr EXCEPT ![th].pc = "create_alloc"]
     /\ ret' = NoRet
     /\ UNCHANGED <<calls, static, active_emulators, claims, snapshots, emus, issued,
                    snap_hist>>

\* the placeholder entry create stores under the lock
Placeholder(t, pair) ==
  [device |-> pair[2], port |-> pair[1], process |-> 0, status |-> "starting",
   snapshot_name |-> SnapshotName(t), last_action_time |-> 0]

\* _get_free_port_pair and the placeholder entry, then the lock is released
CreateAlloc(th) ==
  LET p == ProcOf(th)
      t == thr[th].traj
      pair == GetFreePortPair(p)
  IN /\ thr[th].pc = "create_alloc"
     /\ active_emulators' = [active_emulators EXCEPT ![p][t] = Placeholder(t, pair)]
     /\ port_lock' = [port_lock EXCEPT ![p] = 0]
     /\ thr' = [thr EXCEPT ![th].pc = "create_spawn",
                           ![th].port = pair[1], ![th].dev = pair[2]]
     /\ ret' = NoRet
     /\ UNCHANGED <<calls, static, claims, snapshots, emus, issued, snap_hist>>

\* a failed create that leaves its placeholder in place
KeepPlaceholder(p, t) == active_emulators

\* pop the placeholder of a failed create
PopPlaceholder(p, t) == [active_emulators EXCEPT ![p][t] = NoBinding]

\* _start_emulator up to Popen: the AVD cannot be ensured or Popen raises,
\* or the emulator process is started
CreateSpawn(th) ==
  LET p == ProcOf(th)
      t == thr[th].traj
  IN /\ thr[th].pc = "create_spawn"
     /\ \/ /\ active_emulators' = PopPlaceholder(p, t)
           /\ thr' = [Detach(thr, p, t) EXCEPT ![th] = IdleThread]
           /\ ret' = Return(th, "StartFailed")
           /\ UNCHANGED emus
        \/ /\ FreeHandles # {}
           /\ emus' = Popen(NewHandle, thr[th].port, t, p)
           /\ thr' = [thr EXCEPT ![th].pc = "create_boot", ![th].proc = NewHandle]
           /\ ret' = NoRet
           /\ UNCHANGED active_emulators
     /\ UNCHANGED <<calls, static, port_lock, claims, snapshots, issued, snap_hist>>

\* the boot wait of _start_emulator saw the device with sys.boot_completed = 1
CreateBootOk(th) ==
  LET p == ProcOf(th)
      t == thr[th].traj
  IN /\ thr[th].pc = "create_boot"
     /\ DeviceUp(thr[th].dev)
     /\ IF Has(p, t)
        THEN /\ active_emulators' = [active_emulators EXCEPT
                  ![p][t].device = thr[th].dev, ![p][t].process = thr[th].proc,
                  ![p][t].snapshot_name = SnapshotName(t), ![p][t].status = "running"]
             /\ ret' = Return(th, "ok")
        ELSE \* .update() on a removed entry raises KeyError
             /\ ret' = Return(th, "Internal")
             /\ UNCHANGED active_emulators
     /\ thr' = [thr EXCEPT ![th] = IdleThread]
     /\ UNCHANGED <<calls, static, port_lock, claims, snapshots, emus, issued, snap_hist>>

\* boot_timeout passed without the device being ready
CreateBootTimeout(th) ==
  LET p == ProcOf(th)
      t == thr[th].traj
  IN /\ thr[th].pc = "create_boot"
     /\ ~DeviceUp(thr[th].dev)
     /\ emus' = Terminate(thr[th].proc)
     /\ active_emulators' = PopPlaceholder(p, t)
     /\ thr' = [Detach(thr, p, t) EXCEPT ![th] = IdleThread]
     /\ ret' = Return(th, "BootTimeout")
     /\ UNCHANGED <<calls, static, port_lock, claims, snapshots, issued, snap_hist>>

Create(th) ==
  \/ CreateFind(th)
  \/ CreateLock(th)
  \/ CreateAlloc(th)
  \/ CreateSpawn(th)
  \/ CreateBootOk(th)
  \/ CreateBootTimeout(th)

\* -------------------------------------------------------------------- save
\* save, up to the `emu avd snapshot save` command
SaveBegin(th, t) ==
  LET p == ProcOf(th)
      b == active_emulators[p][t]
  IN /\ thr[th].pc = "idle"
     /\ IF ~Has(p, t)
        THEN /\ ret' = Ret(th, "save", t, "UnknownTrajectory", 0)
             /\ UNCHANGED thr
        ELSE /\ thr' = [thr EXCEPT ![th] =
                  [IdleThread EXCEPT !.pc = "save_adb", !.op = "save", !.traj = t,
                     !.dev = b.device, !.port = b.port, !.live = TRUE]]
             /\ ret' = NoRet
     /\ Accept
     /\ UNCHANGED <<static, active_emulators, port_lock, claims, snapshots, emus,
                    issued, snap_hist>>

\* the SnapshotMeta save writes
SnapshotMeta(t, dev, port) ==
  [trajectory_id |-> t, device_id |-> dev, port |-> port, snapshot_name |-> SnapshotName(t)]

\* the snapshot command returned: on success the metadata file is written and
\* the dict save holds (emulator_info) gets status 'saved'
SaveFinish(th) ==
  LET p == ProcOf(th)
      t == thr[th].traj
  IN /\ thr[th].pc = "save_adb"
     /\ IF DeviceUp(thr[th].dev)
        THEN /\ snapshots' = [snapshots EXCEPT ![t] = SnapshotMeta(t, thr[th].dev, thr[th].port)]
             /\ snap_hist' = [snap_hist EXCEPT ![t] = "saved"]
             /\ active_emulators' =
                  IF thr[th].live
                  THEN [active_emulators EXCEPT ![p][t].status = "saved"]
                  ELSE active_emulators
             /\ ret' = Return(th, "ok")
        ELSE /\ ret' = Return(th, "CommandFailed")
             /\ UNCHANGED <<snapshots, active_emulators, snap_hist>>
     /\ thr' = [thr EXCEPT ![th] = IdleThread]
     /\ UNCHANGED <<calls, static, port_lock, claims, emus, issued>>

Save(th) ==
  \/ \E t \in Trajs : SaveBegin(th, t)
  \/ SaveFinish(th)

\* ------------------------------------------------------ action execution
\* a device command: `main` says that it performs the action (the others
\* prepare it); when it fails the handler goes on with command `fail` of its
\* sequence, `fail` = 0 meaning that the failure is raised
Cmd(c, main, fail) == [c |-> c, main |-> main, fail |-> fail]

\* what a handler does with an action: the commands it issues in order,
\* `invalid`: it then raises or returns an error for the action itself,
\* `ob`: it calls _get_extra_observation before it returns success,
\* `direction`: the direction field of the observation it returns
Plan(cmds, invalid, ob, direction) ==
  [cmds |-> cmds, invalid |-> invalid, ob |-> ob, direction |-> direction]
Invalid(cmds) == Plan(cmds, TRUE, FALSE, None)

Directions == {"up", "down", "left", "right"}
\* str.lower() on the direction strings in use
Lower(d) == IF d = "UP" THEN "up" ELSE d

\* _execute_json_action
ExecuteJsonAction(f) ==
  IF f.action_type \in {"click", "double_tap", "long_press"}
  THEN IF f.x = None \/ f.y = None THEN Invalid(<<>>)
       ELSE IF f.action_type = "click"
       THEN Plan(<<Cmd("input tap", TRUE, 0)>>, FALSE, FALSE, None)
       ELSE IF f.action_type = "double_tap"
       THEN Plan(<<Cmd("input tap", TRUE, 0), Cmd("input tap", TRUE, 0)>>, FALSE, FALSE, None)
       ELSE Plan(<<Cmd("input swipe", TRUE, 0)>>, FALSE, FALSE, None)
  ELSE IF f.action_type = "input_text"
  THEN IF f.text = None THEN Invalid(<<>>)
       ELSE Plan(<<Cmd("input text", TRUE, 0)>>, FALSE, FALSE, None)
  ELSE IF f.action_type \in {"navigate_back", "navigate_home", "keyboard_enter"}
  THEN Plan(<<Cmd("input keyevent", TRUE, 0)>>, FALSE, FALSE, None)
  ELSE IF f.action_type \in {"scroll", "swipe"}
  THEN IF f.direction = None THEN Invalid(<<>>)
       ELSE IF Lower(f.direction[1]) \in Directions
       THEN Plan(<<Cmd("wm size", FALSE, 2), Cmd("input swipe", TRUE, 0)>>, FALSE, FALSE,
                 Some(Lower(f.direction[1])))
       ELSE Invalid(<<Cmd("wm size", FALSE, 2)>>)
  ELSE IF f.action_type = "open_app"
  THEN IF f.app_name = None THEN Invalid(<<>>)
       ELSE Plan(<<Cmd("am start | monkey", TRUE, 0)>>, FALSE, FALSE, None)
  ELSE IF f.keycode # None
  THEN Plan(<<Cmd("input keyevent", TRUE, 0)>>, FALSE, FALSE, None)
  ELSE IF f.action_type = "answer"
  THEN Plan(<<Cmd("input keyevent", TRUE, 0)>>, FALSE, FALSE, None)
  ELSE IF f.action_type = "wait"
  THEN Plan(<<>>, FALSE, FALSE, None)
  ELSE Invalid(<<>>)

\* the text command path of step, taken when to_json_action raised
TextCommand(a) ==
  IF a.form # "dsl" THEN Invalid(<<>>)
  ELSE IF a.cmd = "click"
  THEN IF Len(a.args) >= 2 THEN Plan(<<Cmd("input tap", TRUE, 0)>>, FALSE, TRUE, None)
       ELSE Invalid(<<>>)
  ELSE IF a.cmd = "swipe"
  THEN IF Len(a.args) >= 4 THEN Plan(<<Cmd("input swipe", TRUE, 0)>>, FALSE, TRUE, None)
       ELSE Invalid(<<>>)
  ELSE IF a.cmd = "text"
  THEN Plan(<<Cmd("input text", TRUE, 0)>>, FALSE, TRUE, None)
  ELSE IF a.cmd = "key"
  THEN IF a.word # "" THEN Plan(<<Cmd("input keyevent", TRUE, 0)>>, FALSE, TRUE, None)
       ELSE Invalid(<<>>)
  ELSE IF a.cmd = "screenshot"
  THEN \* _take_screenshot: wake-up commands, then screencap; it returns None
       \* when screencap fails
       Plan(<<Cmd("input keyevent", FALSE, 4), Cmd("wm size", FALSE, 4),
              Cmd("input swipe", FALSE, 4), Cmd("screencap", TRUE, 5)>>, FALSE, TRUE, None)
  ELSE Invalid(<<>>)

\* step after the binding lookup: the JSONAction path when to_json_action
\* returns, the text command path when it raises
StepPlan(a) ==
  IF ToJsonAction(a).form = "record" THEN ExecuteJsonAction(ToJsonAction(a).f)
  ELSE TextCommand(a)

\* the argument of the `input keyevent` a step issues for the action
KeyEvent(a) ==
  LET ja == ToJsonAction(a)
  IN IF ja.form = "record"
     THEN IF ja.f.action_type = "navigate_back" THEN Some("KEYCODE_BACK")
          ELSE IF ja.f.action_type = "navigate_home" THEN Some("KEYCODE_HOME")
          ELSE IF ja.f.action_type = "keyboard_enter" THEN Some("KEYCODE_ENTER")
          ELSE None
     ELSE IF a.form = "dsl" /\ a.cmd = "key" /\ a.word # ""
     THEN Some(GetKeyCode(LowerKey(a.word)))
     ELSE None

\* ------------------------------------------------------ step, shared parts
\* the response of a step that issued cnt commands
StepRet(th, t, dev, a, cnt, failed, result) ==
  [Ret(th, "step", t, result, dev) EXCEPT
     !.act = a, !.ncmd = cnt, !.failed = failed,
     !.ob = (result = "ok" /\ StepPlan(a).ob),
     !.direction = IF result = "ok" THEN StepPlan(a).direction ELSE None,
     !.key = IF result = "ok" THEN KeyEvent(a) ELSE None]

\* a step that is through with its commands returns
StepEnd(th, t, dev, a, cnt, failed) ==
  StepRet(th, t, dev, a, cnt, failed, IF StepPlan(a).invalid THEN "InvalidAction" ELSE "ok")

StepThread(t, dev) ==
  [IdleThread EXCEPT !.pc = "step_exec", !.op = "step", !.traj = t, !.dev = dev,
                     !.live = TRUE]

\* step with its binding in hand: an action without commands is answered at
\* once, otherwise the first command is issued
StepStart(th, t, dev, a, T) ==
  IF StepPlan(a).cmds = <<>>
  THEN /\ thr' = [T EXCEPT ![th] = IdleThread]
       /\ step_loc' = [step_loc EXCEPT ![th] = NoStep]
       /\ ret' = StepEnd(th, t, dev, a, 0, FALSE)
  ELSE /\ thr' = [T EXCEPT ![th] = StepThread(t, dev)]
       /\ step_loc' = [step_loc EXCEPT ![th] = [act |-> a, n |-> 1, cnt |-> 1, failed |-> FALSE]]
       /\ ret' = NoRet

\* -------------------------------------------------------------------- load
\* load (called as `asOp`: by a client, or by step for an unbound id), up to
\* its first blocking call
\* a load that does not look for the metadata file first
LoadEnterNoCheck(th, t, asOp) ==
  LET p == ProcOf(th)
      b == active_emulators[p][t]
  IN /\ ret' = NoRet
     /\ thr' = [thr EXCEPT ![th] =
          IF Has(p, t) /\ b.status = "running"
          THEN [IdleThread EXCEPT !.pc = "load_stop", !.op = asOp, !.traj = t,
                  !.dev = b.device]
          ELSE [IdleThread EXCEPT !.pc = "load_spawn", !.op = asOp, !.traj = t]]

\* a load that leaves a running emulator of the trajectory alone
LoadEnterNoStop(th, t, asOp) ==
  IF snapshots[t] = NoFile
  THEN /\ ret' = Ret(th, asOp, t, "SnapshotMissing", 0)
       /\ UNCHANGED thr
  ELSE /\ ret' = NoRet
       /\ thr' = [thr EXCEPT ![th] =
            [IdleThread EXCEPT !.pc = "load_spawn", !.op = asOp, !.traj = t]]

LoadEnter(th, t, asOp) ==
  LET p == ProcOf(th)
      b == active_emulators[p][t]
  IN IF snapshots[t] = NoFile
     THEN /\ ret' = Ret(th, asOp, t, "SnapshotMissing", 0)
          /\ UNCHANGED thr
     ELSE /\ ret' = NoRet
          /\ thr' = [thr EXCEPT ![th] =
               IF Has(p, t) /\ b.status = "running"
               THEN [IdleThread EXCEPT !.pc = "load_stop", !.op = asOp, !.traj = t,
                       !.dev = b.device]
               ELSE [IdleThread EXCEPT !.pc = "load_spawn", !.op = asOp, !.traj = t]]

LoadBegin(th, t) ==
  /\ thr[th].pc = "idle"
  /\ LoadEnter(th, t, "load")
  /\ Accept
  /\ UNCHANGED <<static, active_emulators, port_lock, claims, snapshots, emus,
                 issued, snap_hist>>

\* _stop_emulator of the running binding (a failing `emu kill` is ignored)
LoadStop(th) ==
  /\ thr[th].pc = "load_stop"
  /\ emus' = EmuKill(thr[th].dev)
  /\ thr' = [thr EXCEPT ![th].pc = "load_spawn", ![th].dev = 0]
  /\ ret' = NoRet
  /\ UNCHANGED <<calls, static, active_emulators, port_lock, claims, snapshots, issued,
                 snap_hist>>

\* the port load starts its emulator on
LoadPort(p, t) ==
  IF ~Has(p, t) THEN GetFreePortPair(p)[1] ELSE active_emulators[p][t].port

\* the metadata is read, the port chosen and the emulator started
LoadSpawn(th) ==
  LET p == ProcOf(th)
      t == thr[th].traj
      port == LoadPort(p, t)
  IN /\ thr[th].pc = "load_spawn"
     /\ IF snapshots[t] = NoFile
        THEN /\ thr' = [thr EXCEPT ![th] = IdleThread]
             /\ step_loc' = [step_loc EXCEPT ![th] = NoStep]
             /\ ret' = Return(th, "Internal")
             /\ UNCHANGED emus
        ELSE /\ FreeHandles # {}
             /\ emus' = Popen(NewHandle, port, t, p)
             /\ thr' = [thr EXCEPT ![th].pc = "load_boot", ![th].proc = NewHandle,
                                   ![th].port = port, ![th].dev = DeviceId(port)]
             /\ ret' = NoRet
             /\ UNCHANGED step_loc
     /\ UNCHANGED <<calls, config, active_emulators, port_lock, claims, snapshots, issued,
                    snap_hist>>

\* the entry load stores once its emulator is ready
Loaded(t, dev, port, process) ==
  [device |-> dev, port |-> port, process |-> process, status |-> "running",
   snapshot_name |-> SnapshotName(t), last_action_time |-> 0]

\* the boot wait of load saw the device ready: the binding is replaced
LoadBootOk(th) ==
  LET p == ProcOf(th)
      t == thr[th].traj
  IN /\ thr[th].pc = "load_boot"
     /\ DeviceUp(thr[th].dev)
     /\ active_emulators' = [active_emulators EXCEPT ![p][t] =
          Loaded(t, thr[th].dev, thr[th].port, thr[th].proc)]
     /\ IF thr[th].op = "step"
        THEN StepStart(th, t, thr[th].dev, step_loc[th].act, Detach(thr, p, t))
        ELSE /\ thr' = [Detach(thr, p, t) EXCEPT ![th] = IdleThread]
             /\ ret' = Return(th, "ok")
             /\ UNCHANGED step_loc
     /\ UNCHANGED <<calls, config, port_lock, claims, snapshots, emus, issued, snap_hist>>

\* boot_timeout passed: the process load started is terminated
LoadBootTimeout(th) ==
  /\ thr[th].pc = "load_boot"
  /\ ~DeviceUp(thr[th].dev)
  /\ emus' = Terminate(thr[th].proc)
  /\ thr' = [thr EXCEPT ![th] = IdleThread]
  /\ step_loc' = [step_loc EXCEPT ![th] = NoStep]
  /\ ret' = Return(th, "BootTimeout")
  /\ UNCHANGED <<calls, config, active_emulators, port_lock, claims, snapshots, issued,
                 snap_hist>>

Load(th) ==
  \/ \E t \in Trajs : LoadBegin(th, t)
  \/ LoadStop(th)
  \/ LoadSpawn(th)
  \/ LoadBootOk(th)
  \/ LoadBootTimeout(th)

\* -------------------------------------------------------------------- step
\* step, up to its first blocking call: an unbound id goes through load
StepBegin(th, t) ==
  LET p == ProcOf(th)
  IN /\ thr[th].pc = "idle"
     /\ \E a \in inputs :
          IF ~Has(p, t)
          THEN /\ LoadEnter(th, t, "step")
               /\ step_loc' = [step_loc EXCEPT ![th] =
                    IF snapshots[t] = NoFile THEN NoStep ELSE [NoStep EXCEPT !.act = a]]
          ELSE StepStart(th, t, active_emulators[p][t].device, a, thr)
     /\ Accept
     /\ UNCHANGED <<config, active_emulators, port_lock, claims, snapshots, emus,
                    issued, snap_hist>>

\* the text command path ends with emulator_info["last_action_time"] = now
Touched(p, t, th) ==
  IF StepPlan(step_loc[th].act).ob /\ thr[th].live
  THEN [active_emulators EXCEPT ![p][t].last_action_time = 1]
  ELSE active_emulators

\* a device command of the step returned: its failure is raised or passed
\* over, the next command is issued, or the step returns
StepExec(th) ==
  LET p == ProcOf(th)
      t == thr[th].traj
      loc == step_loc[th]
      plan == StepPlan(loc.act)
      cmd == plan.cmds[loc.n]
      ok == DeviceUp(thr[th].dev)
      failed == loc.failed \/ (~ok /\ cmd.main)
      next == IF ok THEN loc.n + 1 ELSE cmd.fail
  IN /\ thr[th].pc = "step_exec"
     /\ IF next = 0
        THEN /\ ret' = StepRet(th, t, thr[th].dev, loc.act, loc.cnt, failed, "CommandFailed")
             /\ thr' = [thr EXCEPT ![th] = IdleThread]
             /\ step_loc' = [step_loc EXCEPT ![th] = NoStep]
             /\ UNCHANGED active_emulators
        ELSE IF next > Len(plan.cmds)
        THEN /\ ret' = StepEnd(th, t, thr[th].dev, loc.act, loc.cnt, failed)
             /\ thr' = [thr EXCEPT ![th] = IdleThread]
             /\ step_loc' = [step_loc EXCEPT ![th] = NoStep]
             /\ active_emulators' =
                  IF plan.invalid THEN active_emulators ELSE Touched(p, t, th)
        ELSE /\ ret' = NoRet
             /\ step_loc' = [step_loc EXCEPT ![th] =
                  [loc EXCEPT !.n = next, !.cnt = @ + 1, !.failed = failed]]
             /\ UNCHANGED <<thr, active_emulators>>
     /\ UNCHANGED <<calls, config, port_lock, claims, snapshots, emus, issued, snap_hist>>

Step(th) ==
  \/ \E t \in Trajs : StepBegin(th, t)
  \/ StepExec(th)

\* ------------------------------------------------------------------ remove
\* remove, up to its first blocking call
RemoveBegin(th, t) ==
  LET p == ProcOf(th)
      b == active_emulators[p][t]
      snapshot_exists == snapshots[t] # NoFile
      emulator_active == Has(p, t)
  IN /\ thr[th].pc = "idle"
     /\ IF ~snapshot_exists /\ ~emulator_active
        THEN /\ ret' = Ret(th, "remove", t, "UnknownTrajectory", 0)
             /\ UNCHANGED thr
        ELSE /\ ret' = NoRet
             /\ thr' = [thr EXCEPT ![th] =
                  IF ~emulator_active
                  THEN [IdleThread EXCEPT !.pc = "remove_snap", !.op = "remove",
                          !.traj = t, !.snap = TRUE]
                  ELSE [IdleThread EXCEPT
                          !.pc = IF b.status = "running" THEN "remove_stop"
                                                         ELSE "remove_release",
                          !.op = "remove", !.traj = t, !.dev = b.device,
                          !.proc = b.process, !.snap = snapshot_exists, !.live = TRUE]]
     /\ Accept
     /\ UNCHANGED <<static, active_emulators, port_lock, claims, snapshots, emus,
                    issued, snap_hist>>

\* _stop_emulator of a running binding
RemoveStop(th) ==
  /\ thr[th].pc = "remove_stop"
  /\ emus' = EmuKill(thr[th].dev)
  /\ thr' = [thr EXCEPT ![th].pc = "remove_release"]
  /\ ret' = NoRet
  /\ UNCHANGED <<calls, static, active_emulators, port_lock, claims, snapshots, issued,
                 snap_hist>>

\* the claim is released, the owned process terminated and the entry deleted
RemoveRelease(th) ==
  LET p == ProcOf(th)
      t == thr[th].traj
  IN /\ thr[th].pc = "remove_release"
     /\ claims' = ReleaseClaim(thr[th].dev)
     /\ emus' = Terminate(thr[th].proc)
     /\ IF ~Has(p, t)
        THEN \* del on a missing key raises KeyError
             /\ thr' = [thr EXCEPT ![th] = IdleThread]
             /\ ret' = Return(th, "Internal")
             /\ UNCHANGED active_emulators
        ELSE /\ active_emulators' = [active_emulators EXCEPT ![p][t] = NoBinding]
             /\ IF thr[th].snap
                THEN /\ thr' = [Detach(thr, p, t) EXCEPT ![th] =
                          [thr[th] EXCEPT !.pc = "remove_snap", !.live = FALSE, !.proc = 0]]
                     /\ ret' = NoRet
                ELSE /\ thr' = [Detach(thr, p, t) EXCEPT ![th] = IdleThread]
                     /\ ret' = Return(th, "ok")
     /\ UNCHANGED <<calls, static, port_lock, snapshots, issued, snap_hist>>

\* the metadata file is read and deleted (a failure here is only logged)
RemoveSnap(th) ==
  LET t == thr[th].traj
  IN /\ thr[th].pc = "remove_snap"
     /\ snapshots' = [snapshots EXCEPT ![t] = NoFile]
     /\ snap_hist' = IF snapshots[t] # NoFile /\ snap_hist[t] = "saved"
                     THEN [snap_hist EXCEPT ![t] = "removed"] ELSE snap_hist
     /\ thr' = [thr EXCEPT ![th] = IdleThread]
     /\ ret' = Return(th, "ok")
     /\ UNCHANGED <<calls, static, active_emulators, port_lock, claims, emus, issued>>

Remove(th) ==
  \/ \E t \in Trajs : RemoveBegin(th, t)
  \/ RemoveStop(th)
  \/ RemoveRelease(th)
  \/ RemoveSnap(th)

\* ------------------------------------------------------------------- reset
\* what reset leaves alone
unreset == <<base_port, inputs, normalized, coVars, active_trajectories, idle, step_loc,
             active_emulators, port_lock, claims, snapshots, emus, issued, snap_hist>>

\* the keys reset presses when the baseline snapshot could not be loaded
FallbackKeys == <<"KEYCODE_HOME", "KEYCODE_APP_SWITCH", "KEYCODE_HOME">>

\* a reset that presses the keys without trying the baseline snapshot
ResetBeginNoLoad(th, t) ==
  LET p == ProcOf(th)
  IN /\ thr[th].pc = "idle"
     /\ IF ~Has(p, t)
        THEN /\ ret' = Ret(th, "reset", t, "UnknownTrajectory", 0)
             /\ UNCHANGED thr
        ELSE /\ ret' = NoRet
             /\ thr' = [thr EXCEPT ![th] =
                  [IdleThread EXCEPT !.pc = "reset_key", !.op = "reset", !.traj = t,
                                     !.dev = active_emulators[p][t].device]]
     /\ reset_loc' = [reset_loc EXCEPT ![th] = <<>>]
     /\ Accept
     /\ UNCHANGED unreset

\* reset, up to its first device command
ResetBegin(th, t) ==
  LET p == ProcOf(th)
  IN /\ thr[th].pc = "idle"
     /\ IF ~Has(p, t)
        THEN /\ ret' = Ret(th, "reset", t, "UnknownTrajectory", 0)
             /\ UNCHANGED thr
        ELSE /\ ret' = NoRet
             /\ thr' = [thr EXCEPT ![th] =
                  [IdleThread EXCEPT !.pc = "reset_load", !.op = "reset", !.traj = t,
                                     !.dev = active_emulators[p][t].device]]
     /\ reset_loc' = [reset_loc EXCEPT ![th] = <<>>]
     /\ Accept
     /\ UNCHANGED unreset

\* `emu avd snapshot load baseline_clean` returned: it printed OK, it printed
\* something else (no such snapshot), or the command failed and raised
ResetLoad(th, has_baseline) ==
  /\ thr[th].pc = "reset_load"
  /\ reset_loc' = [reset_loc EXCEPT ![th] = <<"snapshot load baseline_clean">>]
  /\ IF DeviceUp(thr[th].dev) /\ has_baseline
     THEN /\ ret' = Return(th, "ok")
          /\ thr' = [thr EXCEPT ![th] = IdleThread]
     ELSE /\ ret' = NoRet
          /\ thr' = [thr EXCEPT ![th].pc = "reset_key"]
  /\ UNCHANGED <<unreset, calls>>

\* the next `input keyevent` of the fallback returned, or failed and raised
ResetKey(th) ==
  LET cmds == Append(reset_loc[th], FallbackKeys[Len(SelectSeq(reset_loc[th],
                LAMBDA c : c \in {"KEYCODE_HOME", "KEYCODE_APP_SWITCH"})) + 1])
      pressed == Len(SelectSeq(cmds, LAMBDA c : c \in {"KEYCODE_HOME", "KEYCODE_APP_SWITCH"}))
  IN /\ thr[th].pc = "reset_key"
     /\ reset_loc' = [reset_loc EXCEPT ![th] = cmds]
     /\ IF ~DeviceUp(thr[th].dev)
        THEN /\ ret' = Return(th, "CommandFailed")
             /\ thr' = [thr EXCEPT ![th] = IdleThread]
        ELSE IF pressed = Len(FallbackKeys)
        THEN /\ ret' = Return(th, "ok")
             /\ thr' = [thr EXCEPT ![th] = IdleThread]
        ELSE /\ ret' = NoRet
             /\ UNCHANGED thr
     /\ UNCHANGED <<unreset, calls>>

Reset(th) ==
  \/ \E t \in Trajs : ResetBegin(th, t)
  \/ \E has_baseline \in BOOLEAN : ResetLoad(th, has_baseline)
  \/ ResetKey(th)

\* ------------------------------------------------------ emulator processes
\* a started emulator registers with adb and finishes booting; two emulators
\* cannot serve the same console port
EmuBoot ==
  \E e \in emus :
    /\ e.st = "boot"
    /\ \A f \in Listed : f.port # e.port
    /\ emus' = (emus \ {e}) \cup {[e EXCEPT !.st = "up"]}
    /\ ret' = NoRet
    /\ UNCHANGED <<calls, static, active_emulators, port_lock, claims, snapshots, issued,
                   thr, snap_hist>>

\* an emulator that finds its console port taken exits
EmuExit ==
  \E e \in emus :
    /\ e.st = "boot"
    /\ \E f \in Listed : f.port = e.port
    /\ emus' = emus \ {e}
    /\ ret' = NoRet
    /\ UNCHANGED <<calls, static, active_emulators, port_lock, claims, snapshots, issued,
                   thr, snap_hist>>

EmuStep == EmuBoot \/ EmuExit

\* somebody outside the system kills the emulator process of a trajectory
EmuKilled ==
  \E e \in emus :
    /\ e.traj \in Trajs
    /\ e.st = "up"
    /\ emus' = emus \ {e}
    /\ ret' = NoRet
    /\ UNCHANGED <<calls, static, active_emulators, port_lock, claims, snapshots, issued,
                   thr, snap_hist>>

\* ------------------------------------------------------------ Worker base
Workers == 1..NWorkers
Callers == {"mon", "api"}
IdleCaller == [pc |-> "idle", op |-> "none", w |-> 0, todo |-> {}]
NoCall == [w |-> 0, res |-> FALSE]

InitCo ==
  /\ co_running = FALSE
  /\ workers = {}
  /\ worker_status = [w \in Workers |-> [status |-> "none", stale |-> FALSE]]
  /\ worker_lock = "free"
  /\ w_running = [w \in Workers |-> FALSE]
  /\ w_thread = [w \in Workers |-> "none"]
  /\ w_old = [w \in Workers |-> 0]
  /\ co_thr = [c \in Callers |-> IF c = "mon" THEN [IdleCaller EXCEPT !.pc = "off"]
                                              ELSE IdleCaller]
  /\ restarts = [w \in Workers |-> 0]
  /\ unregistered = NoCall
  /\ main_pc = "main"

LiveThreads(w) == w_old[w] + (IF w_thread[w] = "alive" THEN 1 ELSE 0)

\* Worker.start: a running worker is left alone, otherwise a new loop thread
\* is started and becomes self.thread
WorkerStart(w) ==
  IF w_running[w]
  THEN UNCHANGED <<w_running, w_thread, w_old>>
  ELSE /\ w_running' = [w_running EXCEPT ![w] = TRUE]
       /\ w_thread' = [w_thread EXCEPT ![w] = "alive"]
       /\ w_old' = [w_old EXCEPT ![w] = IF w_thread[w] = "alive" THEN @ + 1 ELSE @]

\* _run: `while self.running: ...; time.sleep(60)`: a loop thread ends only
\* when it wakes up and reads running = False
WorkerThreadExit(w) ==
  /\ ~w_running[w]
  /\ \/ /\ w_thread[w] = "alive"
        /\ w_thread' = [w_thread EXCEPT ![w] = "dead"]
        /\ UNCHANGED w_old
     \/ /\ w_old[w] > 0
        /\ w_old' = [w_old EXCEPT ![w] = @ - 1]
        /\ UNCHANGED w_thread
  /\ UNCHANGED <<co_running, workers, worker_status, worker_lock, w_running, co_thr,
                 restarts, outside>>

\* ------------------------------------------------------------- Coordinator
\* the call returns; the monitor goes on with the next worker of its pass
CallReturns(c) ==
  IF c = "mon"
  THEN [co_thr[c] EXCEPT !.pc = "pass", !.op = "none", !.todo = @ \ {co_thr[c].w}, !.w = 0]
  ELSE IdleCaller

SetStatus(w, status) == [worker_status EXCEPT ![w].status = status]

\* register_worker
RegisterWorker(w) ==
  /\ co_thr["api"].pc = "idle"
  /\ worker_lock = "free"
  /\ w \notin workers
  /\ workers' = workers \cup {w}
  /\ worker_status' = [worker_status EXCEPT ![w] = [status |-> "idle", stale |-> FALSE]]
  /\ restarts' = [restarts EXCEPT ![w] = 0]
  /\ UNCHANGED <<co_running, worker_lock, w_running, w_thread, w_old, co_thr, outside>>

\* an unregister_worker that forgets the status record
UnregisterWorkerOnly(w) ==
  /\ co_thr["api"].pc = "idle"
  /\ worker_lock = "free"
  /\ unregistered' = [w |-> w, res |-> w \in workers]
  /\ workers' = workers \ {w}
  /\ UNCHANGED <<co_running, worker_status, worker_lock, w_running, w_thread, w_old,
                 co_thr, restarts, main_pc, envVars>>

\* unregister_worker
UnregisterWorker(w) ==
  /\ co_thr["api"].pc = "idle"
  /\ worker_lock = "free"
  /\ unregistered' = [w |-> w, res |-> w \in workers]
  /\ IF w \in workers
     THEN /\ workers' = workers \ {w}
          /\ worker_status' = [worker_status EXCEPT ![w] = [status |-> "none", stale |-> FALSE]]
     ELSE UNCHANGED <<workers, worker_status>>
  /\ UNCHANGED <<co_running, worker_lock, w_running, w_thread, w_old, co_thr, restarts,
                 main_pc, envVars>>

\* a client asks for start_worker, stop_worker or restart_worker
ApiCall(op, w) ==
  /\ co_thr["api"].pc = "idle"
  /\ co_thr' = [co_thr EXCEPT !["api"] =
       [IdleCaller EXCEPT !.pc = IF op = "start" THEN "start_lock" ELSE "stop_lock",
                          !.op = op, !.w = w]]
  /\ restarts' = [restarts EXCEPT ![w] = IF op = "restart" THEN (IF @ = 2 THEN 1 ELSE @) ELSE 0]
  /\ UNCHANGED <<co_running, workers, worker_status, worker_lock, w_running, w_thread,
                 w_old, outside>>

\* stop_worker takes worker_lock and calls worker.stop() up to its join
StopWorkerLock(c) ==
  LET w == co_thr[c].w
  IN /\ co_thr[c].pc = "stop_lock"
     /\ worker_lock = "free"
     /\ IF w \notin workers
        THEN \* stop_worker returns False, and so does restart_worker
             /\ co_thr' = [co_thr EXCEPT ![c] = CallReturns(c)]
             /\ UNCHANGED <<worker_lock, worker_status, w_running>>
        ELSE IF ~w_running[w]
        THEN \* stop() returns at once: already stopped
             /\ worker_status' = SetStatus(w, "stopped")
             /\ co_thr' = [co_thr EXCEPT ![c] =
                  IF co_thr[c].op = "stop" THEN CallReturns(c)
                  ELSE [co_thr[c] EXCEPT !.pc = "start_lock"]]
             /\ UNCHANGED <<worker_lock, w_running>>
        ELSE /\ w_running' = [w_running EXCEPT ![w] = FALSE]
             /\ worker_lock' = c
             /\ co_thr' = [co_thr EXCEPT ![c].pc = "stop_join"]
             /\ UNCHANGED worker_status
     /\ UNCHANGED <<co_running, workers, w_thread, w_old, restarts, outside>>

\* self.thread.join(timeout=5) returned: the thread ended, or the 5 s passed
\* while it was asleep; stop_worker then records 'stopped'
StopJoin(c) ==
  LET w == co_thr[c].w
  IN /\ co_thr[c].pc = "stop_join"
     /\ worker_status' = SetStatus(w, "stopped")
     /\ worker_lock' = "free"
     /\ co_thr' = [co_thr EXCEPT ![c] =
          IF co_thr[c].op = "stop" THEN CallReturns(c)
          ELSE [co_thr[c] EXCEPT !.pc = "start_lock"]]
     /\ UNCHANGED <<co_running, workers, w_running, w_thread, w_old, restarts, outside>>

\* start_worker under worker_lock
StartWorkerLock(c) ==
  LET w == co_thr[c].w
  IN /\ co_thr[c].pc = "start_lock"
     /\ worker_lock = "free"
     /\ IF w \in workers
        THEN /\ w_old[w] < MaxOld
             /\ WorkerStart(w)
             /\ worker_status' = SetStatus(w, "running")
             /\ restarts' = [restarts EXCEPT ![w] =
                  IF co_thr[c].op = "restart" /\ c = "api" /\ @ < 2 THEN @ + 1 ELSE @]
        ELSE UNCHANGED <<w_running, w_thread, w_old, worker_status, restarts>>
     /\ co_thr' = [co_thr EXCEPT ![c] = CallReturns(c)]
     /\ UNCHANGED <<co_running, workers, worker_lock, outside>>

\* Coordinator.start: the monitor thread begins
CoStart ==
  /\ co_thr["mon"].pc = "off"
  /\ co_running' = TRUE
  /\ co_thr' = [co_thr EXCEPT !["mon"].pc = "loop"]
  /\ UNCHANGED <<workers, worker_status, worker_lock, w_running, w_thread, w_old,
                 restarts, outside>>

\* a pass of _monitor_workers begins: `with self.worker_lock`
MonitorLock ==
  /\ co_thr["mon"].pc = "loop"
  /\ co_running
  /\ worker_lock = "free"
  /\ worker_lock' = "mon"
  /\ co_thr' = [co_thr EXCEPT !["mon"].pc = "pass", !["mon"].todo = workers]
  /\ UNCHANGED <<co_running, workers, worker_status, w_running, w_thread, w_old,
                 restarts, outside>>

\* the restart test of the pass
NeedsRestart(st) == st.status = "error" \/ st.stale

\* the pass reaches worker w: heartbeat() returns or raises, then the restart
\* test; restart_worker is called with worker_lock still held
MonitorWorker(w, raised) ==
  LET st == IF raised THEN [worker_status[w] EXCEPT !.status = "error"]
            ELSE [status |-> IF w_running[w] THEN "running" ELSE "stopped",
                  stale |-> FALSE]
  IN /\ co_thr["mon"].pc = "pass"
     /\ w \in co_thr["mon"].todo
     /\ worker_status' = [worker_status EXCEPT ![w] = st]
     /\ co_thr' = [co_thr EXCEPT !["mon"] =
          IF NeedsRestart(st)
          THEN [@ EXCEPT !.pc = "stop_lock", !.op = "restart", !.w = w]
          ELSE [@ EXCEPT !.todo = @ \ {w}]]
     /\ UNCHANGED <<co_running, workers, worker_lock, w_running, w_thread, w_old,
                    restarts, outside>>

\* the pass is over: the lock is released and the monitor sleeps 10 s
MonitorPassEnd ==
  /\ co_thr["mon"].pc = "pass"
  /\ co_thr["mon"].todo = {}
  /\ worker_lock' = "free"
  /\ co_thr' = [co_thr EXCEPT !["mon"].pc = "loop"]
  /\ UNCHANGED <<co_running, workers, worker_status, w_running, w_thread, w_old,
                 restarts, outside>>

\* more than 60 s have passed since the worker's last recorded heartbeat
HeartbeatAges(w) ==
  /\ w \in workers
  /\ ~worker_status[w].stale
  /\ worker_status' = [worker_status EXCEPT ![w].stale = TRUE]
  /\ UNCHANGED <<co_running, workers, worker_lock, w_running, w_thread, w_old, co_thr,
                 restarts, outside>>

\* ------------------------------------------------------ EnvironmentWorker
\* the thread that serves requests and the worker's loop thread (_run)
RequestThread == 1
LoopThread == 2

\* handle_request after the environment's call returned response r
Tracked(r) ==
  IF r.op \in {"create", "load"} /\ r.res = "ok" THEN active_trajectories \cup {r.traj}
  ELSE IF r.op = "remove" /\ r.res = "ok" THEN active_trajectories \ {r.traj}
  ELSE active_trajectories

\* what the worker's own steps leave alone
untracked == <<base_port, inputs, normalized, coVars, step_loc, active_emulators,
               port_lock, claims, snapshots, emus, issued, thr, calls, snap_hist,
               reset_loc>>

\* handle_request: the environment returned, the bookkeeping follows
HandleReturn ==
  /\ ret # NoRet
  /\ ret.th = RequestThread
  /\ active_trajectories' = Tracked(ret)
  /\ idle' = idle \ {ret.traj}
  /\ ret' = NoRet
  /\ UNCHANGED untracked

\* max_idle_time passes without a request on a bound trajectory
TimePasses(t) ==
  /\ ret = NoRet
  /\ Has(1, t)
  /\ t \notin idle
  /\ \A th \in LocalThreads : thr[th].traj # t
  /\ idle' = idle \cup {t}
  /\ UNCHANGED <<untracked, ret, active_trajectories>>

\* _cleanup_idle_trajectories reaches a tracked trajectory whose last
\* activity is more than max_idle_time ago and calls environment.remove
CleanupBegin ==
  \E t \in active_trajectories \cap idle : RemoveBegin(LoopThread, t)

\* environment.remove returned to the cleanup: del self.active_trajectories[t]
CleanupReturn ==
  /\ ret # NoRet
  /\ ret.th = LoopThread
  /\ active_trajectories' = active_trajectories \ {ret.traj}
  /\ idle' = idle \ {ret.traj}
  /\ ret' = NoRet
  /\ UNCHANGED untracked

\* ---------------------------------------------------------- specifications
vars == <<envVars, coVars>>

\* one AndroidEnvironment serving concurrent requests
Init == InitEnv /\ InitCo

Next ==
  \/ \E th \in LocalThreads : Create(th) \/ Save(th) \/ Load(th) \/ Step(th) \/ Remove(th)
  \/ EmuStep

Spec == Init /\ [][Next]_vars

\* concurrent creates on one AndroidEnvironment, no emulator on the host
InitCreate ==
  /\ InitTables
  /\ base_port \in BasePorts
  /\ inputs = {Click}
  /\ snapshots = [t \in Trajs |-> NoFile]
  /\ issued = {}
  /\ emus = {}
  /\ InitCo

NextCreate ==
  \/ \E th \in LocalThreads : Create(th)
  \/ EmuBoot

SpecCreate == InitCreate /\ [][NextCreate]_vars

\* two instances of the system on one host, each creating trajectories
NextHost ==
  \/ \E th \in Threads : Create(th)
  \/ EmuStep

SpecHost == InitCreate /\ [][NextHost]_vars

\* a running EnvironmentWorker: requests come in through handle_request
\* while its loop thread cleans up
NextWorker ==
  \/ ret = NoRet /\ (Create(RequestThread) \/ Load(RequestThread) \/ Step(RequestThread)
                      \/ Remove(RequestThread))
  \/ HandleReturn
  \/ ret = NoRet /\ CleanupBegin
  \/ ret = NoRet /\ (RemoveStop(LoopThread) \/ RemoveRelease(LoopThread)
                      \/ RemoveSnap(LoopThread))
  \/ CleanupReturn
  \/ \E t \in Trajs : TimePasses(t)
  \/ ret = NoRet /\ EmuBoot

\* the loop thread and the bookkeeping go on
WorkerRuns ==
  /\ WF_vars(ret = NoRet /\ CleanupBegin)
  /\ WF_vars(ret = NoRet /\ (RemoveStop(LoopThread) \/ RemoveRelease(LoopThread)
                               \/ RemoveSnap(LoopThread)))
  /\ WF_vars(CleanupReturn)
  /\ WF_vars(HandleReturn)

SpecWorker == Init /\ [][NextWorker]_vars /\ WorkerRuns

\* resets of trajectories whose emulators may be killed from outside
NextReset ==
  \/ \E th \in LocalThreads : Create(th) \/ Reset(th)
  \/ EmuBoot
  \/ EmuKilled

SpecReset == InitCreate /\ [][NextReset]_vars

\* emulator startups of create and load on one AndroidEnvironment; a request
\* thread that waits for a boot goes on polling until it leaves the wait
NextBoot ==
  \/ \E th \in LocalThreads : Create(th) \/ Load(th)
  \/ EmuStep

BootWaitRuns ==
  \A th \in LocalThreads :
    WF_vars(CreateBootOk(th) \/ CreateBootTimeout(th) \/ LoadBootOk(th) \/ LoadBootTimeout(th))

SpecBoot == Init /\ [][NextBoot]_vars /\ BootWaitRuns

\* two instances of the system on one host, creating and removing
\* trajectories
NextClaims ==
  \/ \E th \in Threads : Create(th)
  \/ \E th \in Threads :
       (\E t \in Trajs : RemoveBegin(th, t)) \/ RemoveStop(th) \/ RemoveRelease(th)
  \/ EmuStep

SpecClaims == InitCreate /\ [][NextClaims]_vars

\* to_json_action applied to one input, and to what it returned
Normalize ==
  LET arg == IF normalized = <<>> THEN CHOOSE a \in inputs : TRUE
             ELSE normalized[Len(normalized)]
  IN /\ Len(normalized) < MaxApply
     /\ normalized # <<>> => normalized[Len(normalized)] # Raised
     /\ normalized' = Append(normalized, ToJsonAction(arg))
     /\ UNCHANGED <<active_trajectories, idle, reset_loc, base_port, inputs, coVars, active_emulators, port_lock, claims,
                    snapshots, emus, issued, thr, calls, ret, step_loc, snap_hist>>

InitNorm ==
  /\ InitTables
  /\ base_port = DefaultBasePort
  /\ inputs \in {{a} : a \in NormInputs}
  /\ snapshots = [t \in Trajs |-> NoFile]
  /\ issued = {}
  /\ emus = {}
  /\ InitCo

NextNorm == Normalize

SpecNorm == InitNorm /\ [][NextNorm]_vars

\* steps of every kind on one AndroidEnvironment that finds a running emulator
\* and no snapshot files
InitStep ==
  /\ InitTables
  /\ base_port = DefaultBasePort
  /\ inputs = StepInputs
  /\ snapshots = [t \in Trajs |-> NoFile]
  /\ issued = {}
  /\ emus = {Orphan}
  /\ InitCo

\* steps whose actions are key commands
InitKey ==
  /\ InitTables
  /\ base_port = DefaultBasePort
  /\ inputs = KeyInputs
  /\ snapshots = [t \in Trajs |-> NoFile]
  /\ issued = {}
  /\ emus = {Orphan}
  /\ InitCo

NextStep ==
  \/ \E th \in LocalThreads : Create(th) \/ Step(th)
  \/ \E th \in LocalThreads :
       (\E t \in Trajs : RemoveBegin(th, t)) \/ RemoveStop(th) \/ RemoveRelease(th)
  \/ EmuBoot

SpecStep == InitStep /\ [][NextStep]_vars
SpecKey == InitKey /\ [][NextStep]_vars

\* a Coordinator, its workers, its monitor thread and one API client
InitCoord ==
  /\ InitTables
  /\ base_port = DefaultBasePort
  /\ inputs = {Click}
  /\ snapshots = [t \in Trajs |-> NoFile]
  /\ issued = {}
  /\ emus = {}
  /\ InitCo

NextCo ==
  \/ \E w \in Workers : RegisterWorker(w)
  \/ \E w \in Workers, op \in {"start", "stop", "restart"} : ApiCall(op, w)
  \/ \E c \in Callers : StopWorkerLock(c) \/ StopJoin(c) \/ StartWorkerLock(c)
  \/ CoStart
  \/ MonitorLock
  \/ \E w \in Workers, raised \in BOOLEAN : MonitorWorker(w, raised)
  \/ MonitorPassEnd
  \/ \E w \in Workers : HeartbeatAges(w) \/ WorkerThreadExit(w)

\* the monitor is a thread of its own: a step it can take, it takes
MonitorRuns ==
  /\ WF_vars(StopWorkerLock("mon"))
  /\ WF_vars(StopJoin("mon"))
  /\ WF_vars(StartWorkerLock("mon"))

SpecCo == InitCoord /\ [][NextCo]_vars /\ MonitorRuns

\* a caller waiting for worker_lock gets it when it is free again and again
\* (the monitor sleeps 10 s between its passes), and a pass goes on to its end
ApiRuns ==
  /\ SF_vars(StopWorkerLock("api"))
  /\ SF_vars(StartWorkerLock("api"))
  /\ WF_vars(StopJoin("api"))
  /\ WF_vars(\E w \in Workers, raised \in BOOLEAN : MonitorWorker(w, raised))
  /\ WF_vars(MonitorPassEnd)

SpecApi == InitCoord /\ [][NextCo]_vars /\ MonitorRuns /\ ApiRuns

\* handle_signal: SIGINT or SIGTERM arrives and the handler calls sys.exit(0),
\* which no `except KeyboardInterrupt` catches: the main thread ends and the
\* daemon threads end with the process
HandleSignal ==
  /\ main_pc = "main"
  /\ main_pc' = "exited"
  /\ UNCHANGED <<envVars, co_running, workers, worker_status, worker_lock, w_running,
                 w_thread, w_old, co_thr, restarts, unregistered>>

\* the process in coordinator or api mode until a signal ends it
NextMain ==
  \/ main_pc = "main" /\ NextCo
  \/ HandleSignal

SpecMain == InitCoord /\ [][NextMain]_vars

\* the EnvironmentWorker main registers; its environment is that of process 1
EnvWorker == 1

\* api mode: the EnvironmentWorker is registered and started, the monitor
\* runs, clients create trajectories and step them, and emulators may be
\* killed from outside
NextKill ==
  \/ RegisterWorker(EnvWorker)
  \/ \E op \in {"start", "stop"} : ApiCall(op, EnvWorker)
  \/ \E c \in Callers : StopWorkerLock(c) \/ StopJoin(c) \/ StartWorkerLock(c)
  \/ CoStart
  \/ MonitorLock
  \/ \E raised \in BOOLEAN : MonitorWorker(EnvWorker, raised)
  \/ MonitorPassEnd
  \/ Create(1) \/ Step(1)
  \/ EmuBoot
  \/ EmuKilled

SpecKill == InitCoord /\ [][NextKill]_vars

\* the same Coordinator with clients that also unregister workers
NextReg ==
  \/ NextCo
  \/ \E w \in Workers : UnregisterWorker(w)

SpecReg == InitCoord /\ [][NextReg]_vars

\* ------------------------------------------------------------- properties
\* the AndroidEnvironment under study is the one of process 1
Binding(t) == active_emulators[1][t]
Active(t) == Binding(t).status \in {"starting", "running"}

\* C1: any two distinct bindings of one AndroidEnvironment whose status is
\* 'starting' or 'running' have different console ports and different bridge
\* (adb) ports, whatever the interleaving of create, load, step, save, remove.
PortsDistinct ==
  \A t1 \in Trajs, t2 \in Trajs :
    (t1 # t2 /\ Active(t1) /\ Active(t2)) =>
      /\ Binding(t1).port # Binding(t2).port
      /\ Binding(t1).port + 1 # Binding(t2).port + 1

\* the live emulator processes the AndroidEnvironment started for t
SpawnedFor(t) == {e \in emus : e.proc = 1 /\ e.traj = t}

\* C2: no second emulator process is spawned for a trajectory id while an
\* emulator spawned earlier for it is still alive: at any time at most one
\* emulator process started for t by the AndroidEnvironment is alive.
OneEmulatorPerTrajectory == \A t \in Trajs : Cardinality(SpawnedFor(t)) <= 1

\* C3: once a monitor pass has found a worker to restart (its heartbeat call
\* raised, or its heartbeat is stale), restart_worker returns and the monitor
\* goes on with its pass.
MonitorRestartReturns ==
  (co_thr["mon"].op = "restart") ~> (co_thr["mon"].op = "none")

\* C4: after restart_worker(w) has been called twice in a row, w is running
\* with exactly one live thread executing its _run loop.
RestartIdempotent ==
  \A w \in Workers : restarts[w] = 2 => (w_running[w] /\ LiveThreads(w) = 1)

\* C5: every binding with status 'running' has its claim file
\* <claim_dir>/<device_id>.lock, whether its emulator was started by create or
\* load or adopted.
RunningHasClaim ==
  \A t \in Trajs : Binding(t).status = "running" => Claimed(Binding(t).device)

\* the create of thread th holds the pair its port allocation returned
Allocated(th) == thr[th].pc \in {"create_spawn", "create_boot"}

\* C6: two processes on one host that allocate ports through create never hold
\* the same (console_port, bridge_port) pair at the same time.
HostPairsDistinct ==
  \A a \in LocalThreads, b \in RemoteThreads :
    (Allocated(a) /\ Allocated(b)) =>
      <<thr[a].port, thr[a].dev>> # <<thr[b].port, thr[b].dev>>

\* remove returned {'success': True}
RemoveSucceeded == ret.op = "remove" /\ ret.res = "ok" /\ ret.th \in LocalThreads

\* C7: when remove(t) returns success, active_emulators has no entry for t,
\* the claim file of the device that was bound to t is absent and the
\* metadata file of t is absent.
RemovePost ==
  RemoveSucceeded =>
    /\ ~Has(1, ret.traj)
    /\ (ret.dev # 0 => ~Claimed(ret.dev))
    /\ snapshots[ret.traj] = NoFile

\* save returned {'success': True}, the state save leaves, save refused
SaveSucceeded == ret.op = "save" /\ ret.res = "ok" /\ ret.th \in LocalThreads
SaveBound ==
  /\ Has(1, ret.traj)
  /\ snapshots[ret.traj] =
       [trajectory_id |-> ret.traj, device_id |-> Binding(ret.traj).device,
        port |-> Binding(ret.traj).port,
        snapshot_name |-> Binding(ret.traj).snapshot_name]
  /\ Binding(ret.traj).status = "saved"
SaveRefused == ret.op = "save" /\ ret.res = "UnknownTrajectory"

\* C8: when save(t) returns success, the metadata file of t holds t and the
\* device_id, port and snapshot_name of t's binding, and the binding's status
\* is 'saved'; save(t) on a t with no binding returns an error and writes no
\* file.
SavePost ==
  [][/\ SaveSucceeded' => SaveBound'
     /\ SaveRefused' => snapshots' = snapshots]_vars

\* C9: a load(t) that finds no metadata file of t returns SnapshotMissing,
\* starts no emulator, stops no emulator and leaves the binding table as it
\* was.
LoadMissing ==
  [][\A th \in LocalThreads, t \in Trajs :
       (LoadBegin(th, t) /\ snapshots[t] = NoFile) =>
         /\ ret' = Ret(th, "load", t, "SnapshotMissing", 0)
         /\ emus' = emus
         /\ active_emulators' = active_emulators
         /\ thr'[th] = IdleThread]_vars

\* load(t) answered SnapshotMissing for a t that was saved and then removed
LoadAfterSaveRemove ==
  /\ ret.op = "load"
  /\ ret.res = "SnapshotMissing"
  /\ snap_hist[ret.traj] = "removed"
  /\ ~Has(1, ret.traj)

\* C10: with no unmanaged emulator on the host, concurrent creates on one
\* AndroidEnvironment get pairwise distinct device ids emulator-<odd integer>,
\* and each binding has its own even console port >= base_port.
CreatesDistinct ==
  /\ \A t \in Trajs : Has(1, t) =>
       /\ Binding(t).device % 2 = 1
       /\ Binding(t).port % 2 = 0
       /\ Binding(t).port >= base_port
  /\ \A t1 \in Trajs, t2 \in Trajs : (t1 # t2 /\ Has(1, t1) /\ Has(1, t2)) =>
       /\ Binding(t1).device # Binding(t2).device
       /\ Binding(t1).port # Binding(t2).port
  /\ (ret.op = "create" /\ ret.res = "ok") =>
       (Binding(ret.traj).status = "running" /\ Binding(ret.traj).device = ret.dev)

\* two creates have succeeded, the second while the first one's emulator runs,
\* with an odd base_port
TwoCreated ==
  /\ base_port = DefaultBasePort + 1
  /\ ret.op = "create"
  /\ ret.res = "ok"
  /\ \A t \in Trajs : Binding(t).status = "running"

\* C11: step calls on one trajectory are serialised: two steps on the same
\* trajectory are never both in the middle of their command sequences, so the
\* commands of one never fall between the commands of the other.
StepsSerialised ==
  \A a \in LocalThreads, b \in LocalThreads :
    (a # b /\ thr[a].pc = "step_exec" /\ thr[b].pc = "step_exec"
       /\ thr[a].traj = thr[b].traj) =>
      ~(/\ step_loc[a].n < Len(StepPlan(step_loc[a].act).cmds)
        /\ step_loc[b].n < Len(StepPlan(step_loc[b].act).cmds))

\* C12: a step whose action lacks a required field or holds an invalid one
\* (x or y, text, direction, app_name, DSL arguments) returns success=false
\* and has issued no device command.
RequiredFieldsChecked ==
  (ret.op = "step" /\ ret.act \in Malformed) => (ret.res # "ok" /\ ret.ncmd = 0)

\* C13: step issues device commands only for a binding whose status is
\* 'running': when a step issues its first command, the binding of its
\* trajectory is running, never 'starting' or 'saved'.
StepOnlyWhenRunning ==
  [][\A th \in LocalThreads :
       (step_loc[th].cnt = 0 /\ step_loc'[th].cnt = 1) =>
         active_emulators'[1][thr'[th].traj].status = "running"]_vars

\* C14: device command failures during step are surfaced: a step in which a
\* command that performs the action failed returns success=false, for every
\* action kind.
FailuresSurfaced ==
  (ret.op = "step" /\ ret.failed) => ret.res # "ok"

\* the action changes device state: every kind but wait and screenshot
ChangesState(a) ==
  /\ ~(a.form = "dsl" /\ a.cmd = "screenshot")
  /\ ~(ToJsonAction(a).form = "record" /\ ToJsonAction(a).f.action_type = "wait")

\* C15: after every successful step whose action changes device state, given
\* as JSON, dict or DSL string, _get_extra_observation has been invoked and
\* its fields are part of the returned observation.
ObservationEnriched ==
  (ret.op = "step" /\ ret.res = "ok" /\ ChangesState(ret.act)) => ret.ob

\* the swipe command of a translation run and the direction it was given
SwipeIn == (CHOOSE a \in inputs : TRUE).args
SwipeOut == normalized[1].f.direction[1]
SwipeTranslated ==
  /\ inputs \subseteq Swipes
  /\ normalized # <<>>
  /\ normalized[1].form = "record"
  /\ normalized[1].f.action_type = "swipe"

\* C16 as stated: right iff x2>x1 and |dx|>|dy|, left iff x2<x1 and |dx|>|dy|,
\* down iff y2>y1 and |dy|>=|dx|, up iff y2<y1 and |dy|>=|dx|.
SwipeRules ==
  (inputs \subseteq Swipes /\ normalized # <<>>) =>
    LET x1 == SwipeIn[1]
        y1 == SwipeIn[2]
        x2 == SwipeIn[3]
        y2 == SwipeIn[4]
    IN /\ SwipeTranslated
       /\ SwipeOut = "right" <=> (x2 > x1 /\ Abs(x2 - x1) > Abs(y2 - y1))
       /\ SwipeOut = "left" <=> (x2 < x1 /\ Abs(x2 - x1) > Abs(y2 - y1))
       /\ SwipeOut = "down" <=> (y2 > y1 /\ Abs(y2 - y1) >= Abs(x2 - x1))
       /\ SwipeOut = "up" <=> (y2 < y1 /\ Abs(y2 - y1) >= Abs(x2 - x1))

\* C16, amended: the same rules with up iff y2<=y1 and |dy|>=|dx|, so that a
\* swipe whose two points coincide normalizes to up; ties in magnitude go to
\* the vertical axis.
SwipeRulesZeroUp ==
  (inputs \subseteq Swipes /\ normalized # <<>>) =>
    LET x1 == SwipeIn[1]
        y1 == SwipeIn[2]
        x2 == SwipeIn[3]
        y2 == SwipeIn[4]
    IN /\ SwipeTranslated
       /\ SwipeOut = "right" <=> (x2 > x1 /\ Abs(x2 - x1) > Abs(y2 - y1))
       /\ SwipeOut = "left" <=> (x2 < x1 /\ Abs(x2 - x1) > Abs(y2 - y1))
       /\ SwipeOut = "down" <=> (y2 > y1 /\ Abs(y2 - y1) >= Abs(x2 - x1))
       /\ SwipeOut = "up" <=> (y2 =< y1 /\ Abs(y2 - y1) >= Abs(x2 - x1))
       /\ Abs(x2 - x1) = Abs(y2 - y1) => SwipeOut \in {"up", "down"}

\* a swipe between two points at equal horizontal and vertical distance has
\* been translated to a vertical direction
SwipeTieVertical ==
  /\ SwipeTranslated
  /\ SwipeIn[3] - SwipeIn[1] = 2
  /\ SwipeIn[4] - SwipeIn[2] = -2
  /\ SwipeOut = "up"

\* C17 as stated: a successful step 'swipe 100 200 300 400' returns
\* observation.direction = 'right', a successful step 'swipe 100 200 100 400'
\* returns observation.direction = 'down'.
SwipeExamples ==
  (ret.op = "step" /\ ret.res = "ok") =>
    /\ ret.act = SwipeTie => ret.direction = Some("right")
    /\ ret.act = SwipeVertical => ret.direction = Some("down")

\* C17, amended: both commands return observation.direction = 'down' when the
\* step succeeds ('swipe 100 200 300 400' moves 200 on each axis, a tie), and
\* the step fails only when a device command failed.
SwipeExamplesDown ==
  (ret.op = "step" /\ ret.act \in {SwipeTie, SwipeVertical}) =>
    /\ ret.res \in {"ok", "CommandFailed"}
    /\ ret.res = "ok" => ret.direction = Some("down")

\* step(t, 'swipe 100 200 300 400') has returned success with direction 'down'
SwipeTieReturned ==
  /\ ret.op = "step"
  /\ ret.act = SwipeTie
  /\ ret.res = "ok"
  /\ ret.direction = Some("down")

\* C18: normalization is idempotent: for every input that to_json_action
\* accepts, applying to_json_action to its result returns that result.
NormalizeIdempotent ==
  Len(normalized) = MaxApply => normalized[2] = normalized[1]

\* the DSL string 'click 100 200' has been normalized and the record
\* normalized again
ClickNormalizedTwice ==
  /\ inputs = {Click}
  /\ Len(normalized) = MaxApply
  /\ normalized[2].form = "record"
  /\ normalized[2].f.action_type = "click"

\* C19: a create that fails returns success=false, leaves no entry for the
\* trajectory id it generated in active_emulators, and changes no other
\* binding.
CreateFailureCleans ==
  [][(ret'.op = "create" /\ ret'.res # "ok") =>
       /\ active_emulators'[1][ret'.traj] = NoBinding
       /\ \A t \in Trajs \ {ret'.traj} :
            active_emulators'[1][t] = active_emulators[1][t]]_vars

\* a create has failed after it reserved its placeholder, while another
\* trajectory is bound
CreateFailedBesideBinding ==
  /\ ret.op = "create"
  /\ ret.res \in {"StartFailed", "BootTimeout"}
  /\ ~Has(1, ret.traj)
  /\ \E t \in Trajs \ {ret.traj} : Binding(t).status = "running"

\* C20: remove(t) returns success exactly when t had a binding or a metadata
\* file at the time of the call: a remove that found one of them returns
\* success, and a remove answered with the unknown-trajectory error found
\* neither and changes no binding, no claim file and no snapshot file.
RemoveExactly ==
  [][ret'.op = "remove" =>
       /\ ret'.res \in {"ok", "UnknownTrajectory"}
       /\ ret'.res = "UnknownTrajectory" =>
            /\ ~Has(1, ret'.traj)
            /\ snapshots[ret'.traj] = NoFile
            /\ UNCHANGED <<active_emulators, claims, snapshots>>]_vars

\* C21: a claim file is released only by the process that created it: when
\* a <device_id>.lock file disappears, a remove of its owner process has just
\* released it.
ClaimReleasedByOwner ==
  [][\A c \in claims \ claims' :
       \E th \in Threads :
         /\ ProcOf(th) = c.owner
         /\ thr[th].pc = "remove_release"
         /\ thr'[th].pc # "remove_release"]_vars

\* C22: every status change of a binding, its creation and deletion included
\* ('absent': no binding), is a step of the state machine absent -> starting
\* -> running -> {saved <-> running} -> stopped -> absent, with error
\* reachable from starting, running and saved; a binding is 'starting' only
\* while a create is starting the emulator of that trajectory.
StatusFollowsMachine ==
  [][\A t \in Trajs :
       /\ Binding(t).status # Binding(t)'.status =>
            <<Binding(t).status, Binding(t)'.status>> \in
              {<<"absent", "starting">>, <<"starting", "running">>,
               <<"running", "saved">>, <<"saved", "running">>,
               <<"running", "stopped">>, <<"stopped", "absent">>,
               <<"starting", "error">>, <<"running", "error">>, <<"saved", "error">>}
       /\ Binding(t)'.status = "starting" =>
            \E th \in LocalThreads :
              thr'[th].op = "create" /\ thr'[th].traj = t]_vars

\* C28: port allocation fails once ScanLimit candidate ports have been
\* found in use: no create holds a port that lies ScanLimit or more candidates
\* after the first one.
ScanBounded ==
  \A th \in Threads :
    Allocated(th) =>
      thr[th].port < (IF base_port % 2 = 0 THEN base_port ELSE base_port + 1) + 2 * ScanLimit

\* the request thread waits for the emulator it started to boot
InBootWait(th) == thr[th].pc \in {"create_boot", "load_boot"}

\* C30: emulator startup always terminates; it ends in success only when the
\* device is listed and has booted, and otherwise in a boot-timeout error
\* after which the emulator process it spawned is no longer alive.
StartupTerminates ==
  /\ [][\A th \in LocalThreads :
          (InBootWait(th) /\ ~InBootWait(th)') =>
            IF DeviceUp(thr[th].dev)
            THEN ret'.res # "BootTimeout"
            ELSE /\ ret'.th = th
                 /\ ret'.res = "BootTimeout"
                 /\ \A e \in emus' : e.h # thr[th].proc]_vars
  /\ \A th \in LocalThreads : InBootWait(th) ~> ~InBootWait(th)

\* a load gave up after boot_timeout and its emulator process is gone
LoadBootTimedOut ==
  /\ ret.op = "load"
  /\ ret.res = "BootTimeout"
  /\ \A e \in emus : e.traj # ret.traj

\* C26: no blocking call is in progress in a thread that holds a table lock:
\* a thread holding the port lock is not running the `adb devices` of the
\* port scan, and a caller holding worker_lock is not inside a worker's
\* stop() waiting for its thread to join.
LocksShortHeld ==
  /\ \A th \in Threads :
       port_lock[ProcOf(th)] = th => thr[th].pc # "create_alloc"
  /\ \A c \in Callers :
       worker_lock = c => co_thr[c].pc # "stop_join"

\* C27: the key set of workers equals the key set of worker_status in every
\* state; register_worker adds one entry to both, with status 'idle';
\* unregister_worker of a registered id removes it from both and returns True,
\* and of an unknown id returns False and changes neither.
RegistryKeysEqual ==
  /\ [](\A w \in Workers : w \in workers <=> worker_status[w].status # "none")
  /\ [][/\ \A w \in workers' \ workers :
            /\ workers' = workers \cup {w}
            /\ worker_status' = [worker_status EXCEPT ![w] = [status |-> "idle", stale |-> FALSE]]
        /\ \A w \in workers \ workers' :
            unregistered' = [w |-> w, res |-> TRUE]
        /\ unregistered' # unregistered =>
            LET w == unregistered'.w
            IN IF w \in workers
               THEN /\ unregistered'.res = TRUE
                    /\ workers' = workers \ {w}
                    /\ worker_status' =
                         [worker_status EXCEPT ![w] = [status |-> "none", stale |-> FALSE]]
               ELSE /\ unregistered'.res = FALSE
                    /\ UNCHANGED <<workers, worker_status>>]_vars

\* a running worker was unregistered while another stays registered
UnregisteredOne ==
  /\ unregistered = [w |-> 1, res |-> TRUE]
  /\ 1 \notin workers
  /\ w_running[1]
  /\ 2 \in workers

\* C29: a step 'key <name>' that succeeds issues `input keyevent` with the
\* keycode of the key map for back, home, menu, power, enter, delete,
\* recents, volume_up and volume_down in any letter case, and with the name
\* exactly as the caller wrote it for any other name.
KeyCodes ==
  \A k \in KeyNames :
    (ret.op = "step" /\ ret.res = "ok" /\ ret.act = Dsl("key", <<>>, k)) =>
      ret.key =
        Some(IF k \in {"back", "BACK", "Back"} THEN "KEYCODE_BACK"
             ELSE IF k = "Home" THEN "KEYCODE_HOME"
             ELSE IF k = "ENTER" THEN "KEYCODE_ENTER"
             ELSE IF k \in {"menu", "MENU"} THEN "KEYCODE_MENU"
             ELSE IF k = "power" THEN "KEYCODE_POWER"
             ELSE IF k = "delete" THEN "KEYCODE_DEL"
             ELSE IF k = "recents" THEN "KEYCODE_APP_SWITCH"
             ELSE IF k = "volume_up" THEN "KEYCODE_VOLUME_UP"
             ELSE IF k = "Volume_Down" THEN "KEYCODE_VOLUME_DOWN"
             ELSE k)

\* C25: after SIGINT or SIGTERM the process exits only after an orderly
\* shutdown: when it has exited, stop() has been called on the coordinator
\* (running is False, the monitor loop ended) and on every registered worker
\* (none is left running).
OrderlyShutdown ==
  main_pc = "exited" =>
    /\ ~co_running
    /\ \A w \in workers : ~w_running[w]

\* the emulator of a running trajectory no longer answers
Dead(t) == Binding(t).status = "running" /\ ~DeviceUp(Binding(t).device)

\* C24: once the emulator of a live trajectory has been killed from outside,
\* the monitor pass that next reaches the Environment Worker sets its status
\* to 'error' and calls restart_worker for it, and a step on that trajectory
\* that returns afterwards does not report success.
KilledEmulatorNoticed ==
  [][\A t \in Trajs :
       Dead(t) =>
         /\ (/\ co_thr["mon"].pc = "pass"
             /\ EnvWorker \in co_thr["mon"].todo
             /\ co_thr'["mon"] # co_thr["mon"]) =>
               /\ worker_status'[EnvWorker].status = "error"
               /\ co_thr'["mon"].op = "restart"
         /\ (ret'.op = "step" /\ ret'.traj = t) => ret'.res # "ok"]_vars

\* the cleanup has called environment.remove on t
Cleaning(t) ==
  \/ thr[LoopThread].op = "remove" /\ thr[LoopThread].traj = t
  \/ ret.th = LoopThread /\ ret.traj = t

\* C23: while the EnvironmentWorker runs, every trajectory bound in the
\* environment whose last action is more than max_idle_time ago gets
\* environment.remove called on it by a cleanup pass (as long as the run has
\* requests left, MaxCalls), and the cleanup calls remove on no trajectory that
\* handled a request within the last max_idle_time.
IdleCleanedUp ==
  /\ \A t \in Trajs :
       (Has(1, t) /\ t \in idle) ~> (Cleaning(t) \/ t \notin idle \/ calls = MaxCalls)
  /\ [][\A t \in Trajs : (~Cleaning(t) /\ Cleaning(t)') => t \in idle]_vars

\* C31: a load(t) that finds binding t with status 'running' issues `emu kill`
\* to the bound device before it spawns the new emulator, and whenever load
\* returns success binding t has status 'running', holds the process handle
\* that load spawned, and its device_id is emulator-<port+1> of its port.
LoadReplacesRunning ==
  [][\A th \in LocalThreads :
       /\ (/\ thr[th].pc = "idle"
           /\ thr'[th].op = "load"
           /\ Binding(thr'[th].traj).status = "running") =>
             /\ thr'[th].pc = "load_stop"
             /\ thr'[th].dev = Binding(thr'[th].traj).device
       /\ (thr[th].pc = "load_stop" /\ thr'[th].pc # "load_stop") =>
             /\ emus' = EmuKill(thr[th].dev)
             /\ thr'[th].pc = "load_spawn"
       /\ (thr[th].op = "load" /\ thr[th].pc # "load_boot" /\ thr'[th].pc = "load_boot") =>
             thr[th].pc = "load_spawn"
       /\ (ret'.th = th /\ ret'.op = "load" /\ ret'.res = "ok") =>
             LET b == active_emulators'[1][ret'.traj]
             IN /\ b.status = "running"
                /\ b.process = thr[th].proc
                /\ b.device = DeviceId(b.port)]_vars

\* a load has stopped the running emulator of its trajectory and is about to
\* spawn the new one
LoadStoppedRunning ==
  \E th \in LocalThreads :
    /\ thr[th].op = "load"
    /\ thr[th].pc = "load_spawn"
    /\ Binding(thr[th].traj).status = "running"
    /\ ~DeviceUp(Binding(thr[th].traj).device)

\* C32: every step(t, action) that returns success has updated binding t's
\* last action time to the time of that step, whatever the representation
\* of the action (JSON or dict action, DSL string, legacy text command).
StepTouchesBinding ==
  [][(ret'.op = "step" /\ ret'.res = "ok" /\ ret'.th \in LocalThreads) =>
       active_emulators'[1][ret'.traj].last_action_time = 1]_vars

\* C33: no emulator device is bound to two live bindings at once, across all
\* threads and all processes of the host: any two distinct bindings with
\* status 'running' name different devices.
DeviceBoundOnce ==
  \A p1 \in Procs, p2 \in Procs, t1 \in Trajs, t2 \in Trajs :
    (/\ <<p1, t1>> # <<p2, t2>>
     /\ active_emulators[p1][t1].status = "running"
     /\ active_emulators[p2][t2].status = "running") =>
      active_emulators[p1][t1].device # active_emulators[p2][t2].device

FailedLoadNoStaleBinding ==
  [][\A th \in LocalThreads :
       (thr[th].op = "load" /\ thr[th].pc = "load_boot" /\ ret'.th = th /\ ret'.res # "ok") =>
         LET b == active_emulators'[1][thr[th].traj]
         IN b.status = "running" =>
              \E e \in emus' : e.st = "up" /\ DeviceId(e.port) = b.device]_vars

\* C38: remove never releases a device's claim while leaving its emulator
\* running: when remove(t) releases the claim and deletes the binding of t,
\* no emulator answers on the device that was bound to t, whatever the
\* binding's status was and whether the emulator was started or adopted.
RemoveStopsEmulator ==
  [][\A th \in LocalThreads :
       (/\ thr[th].op = "remove" /\ thr[th].pc = "remove_release"
        /\ Has(1, thr[th].traj)
        /\ active_emulators'[1][thr[th].traj].status = "absent") =>
         ~\E e \in emus' : e.st = "up" /\ DeviceId(e.port) = thr[th].dev]_vars

\* C39: a cleanup pass deletes a trajectory from active_trajectories only if
\* environment.remove(t) returned success; when remove reports failure the
\* trajectory stays tracked.
CleanupKeepsFailed ==
  [][\A t \in Trajs :
       (ret.th = LoopThread /\ ret.op = "remove" /\ ret.traj = t
        /\ t \in active_trajectories /\ t \notin active_trajectories') =>
         ret.res = "ok"]_vars

\* C40: once remove(t) has released the claim and deleted the binding of t, a
\* step(t, .) that runs concurrently sends no further command to the device:
\* every command a step issues after its first goes to the device its
\* trajectory is still bound to.
NoCommandAfterRemove ==
  [][\A th \in LocalThreads :
       (/\ thr[th].op = "step" /\ thr[th].pc = "step_exec" /\ thr'[th].pc = "step_exec"
        /\ step_loc'[th].cnt > step_loc[th].cnt) =>
         /\ Has(1, thr[th].traj)
         /\ Binding(thr[th].traj).device = thr[th].dev]_vars

\* C36: Coordinator operations never block for ever on worker_lock: whatever
\* a monitor pass decides, a start_worker, stop_worker or restart_worker call
\* that a client made eventually returns.
ApiCallReturns == (co_thr["api"].pc # "idle") ~> (co_thr["api"].pc = "idle")

====
